---- MODULE Spec2Model ----
(***************************************************************************)
(* Code Typing Trainer (src/app.py, src/reset_settings.py): the settings    *)
(* file, the request handlers and the script that read and write it, the   *)
(* template upload handler, the scan of the templates tree, and the two    *)
(* pure functions _strip_comments and format_timestamp.                    *)
(*                                                                         *)
(* Text is modelled as a sequence of one-character strings.  A JSON value  *)
(* is a tagged record: [t |-> "obj", v |-> <function from keys>],          *)
(* [t |-> "arr", v |-> <sequence>], [t |-> "str", v |-> <text>] or         *)
(* [t |-> "num", v |-> <natural>].                                         *)
(***************************************************************************)
EXTENDS Integers, Sequences, FiniteSets, TLC

\* ------------------------------------------------------------------ bounds
\* Number of requests one behaviour may start.
MaxRequests == 2
\* Number of template upload requests one behaviour may make.
MaxUploads == 2

\* Most requests of a behaviour that only saves, clears and renders.
MaxOrdered == 3

\* ------------------------------------------------------ program constants
\* history[:20]
HistoryCap == 20
\* insert(0, entry)
InsertIndex == 0

\* The two request slots (threads of the development server).
Reqs == {1, 2}

\* -------------------------------------------------------------- text
DigitChars == <<"0", "1", "2", "3", "4", "5", "6", "7", "8", "9">>

Digit(n) == DigitChars[n + 1]

TwoDigits(n) == <<Digit((n \div 10) % 10), Digit(n % 10)>>

SixDigits(n) == <<"0", "0", "0", "0">> \o TwoDigits(n)

IsDigit(c) == \E i \in 1..10 : DigitChars[i] = c

DigitVal(c) == (CHOOSE i \in 1..10 : DigitChars[i] = c) - 1

\* s[i:j] with Python's 0-based, end-exclusive, clamping slice.
Slice(s, i, j) == SubSeq(s, i + 1, IF j < Len(s) THEN j ELSE Len(s))

\* c in s
Contains(s, c) == \E i \in 1..Len(s) : s[i] = c

\* Number of decimal digits of a natural number.
RECURSIVE NumLen(_)
NumLen(n) == IF n < 10 THEN 1 ELSE 1 + NumLen(n \div 10)

\* -------------------------------------------------------------- JSON
JStr(s) == [t |-> "str", v |-> s]
JNum(n) == [t |-> "num", v |-> n]
JObj(f) == [t |-> "obj", v |-> f]
JArr(q) == [t |-> "arr", v |-> q]

\* The empty mapping {}.
EmptyMap == [k \in {} |-> JNum(0)]

\* d.get(key, default) on a mapping.
Get(d, key, default) == IF key \in DOMAIN d THEN d[key] ELSE default

\* A slip: a new mapping with the one key.
PutAlone(d, key, value) == key :> value

\* d[key] = value on a mapping.
Put(d, key, value) == [k \in (DOMAIN d) \cup {key} |-> IF k = key THEN value ELSE d[k]]

KeyLen(k) ==
    CASE k = "history" -> 7
      [] k = "profile_image" -> 13
      [] k = "wpm" -> 3
      [] k = "errors" -> 6
      [] k = "backspaces" -> 10
      [] k = "timestamp" -> 9
      [] k = "display_timestamp" -> 17

RECURSIVE SumOver(_, _)
SumOver(S, f) ==
    IF S = {} THEN 0
    ELSE LET x == CHOOSE y \in S : TRUE IN f[x] + SumOver(S \ {x}, f)

\* Number of characters json.dump(value, indent=4) writes for a value that
\* starts at nesting depth d.
RECURSIVE DumpLen(_, _)
DumpLen(val, d) ==
    CASE val.t = "num" -> NumLen(val.v)
      [] val.t = "str" -> Len(val.v) + 2
      [] val.t = "arr" ->
            IF Len(val.v) = 0 THEN 2
            ELSE 1
                 + SumOver(1..Len(val.v),
                           [i \in 1..Len(val.v) |-> 1 + 4 * (d + 1) + DumpLen(val.v[i], d + 1)])
                 + (Len(val.v) - 1) + 1 + 4 * d + 1
      [] val.t = "obj" ->
            IF DOMAIN val.v = {} THEN 2
            ELSE 1
                 + SumOver(DOMAIN val.v,
                           [k \in DOMAIN val.v |->
                               1 + 4 * (d + 1) + KeyLen(k) + 2 + 2 + DumpLen(val.v[k], d + 1)])
                 + (Cardinality(DOMAIN val.v) - 1) + 1 + 4 * d + 1

\* -------------------------------------------------------------- timestamps
Date == <<"2", "0", "2", "5", "-", "0", "6", "-", "1", "6">>

\* datetime.now().isoformat() at clock tick c.  A tick is half a second; the
\* odd ticks carry a non-zero microsecond, the even ones none, and isoformat
\* leaves the fraction out when the microsecond is 0.
IsoFormat(c) ==
    Date \o <<"T", "1", "2", ":">> \o TwoDigits(c \div 4) \o <<":">>
         \o TwoDigits((c \div 2) % 2)
         \o (IF c % 2 = 0 THEN <<>> ELSE <<".">> \o SixDigits(c % 2))

AllDigits(s) == \A i \in 1..Len(s) : IsDigit(s[i])

Num2(s, i) == 10 * DigitVal(s[i]) + DigitVal(s[i + 1])

DaysIn(m) == IF m = 2 THEN 29 ELSE IF m \in {4, 6, 9, 11} THEN 30 ELSE 31

\* The YYYY-MM-DD prefix datetime.fromisoformat requires.
DateOK(s) ==
    /\ Len(s) >= 10
    /\ AllDigits(SubSeq(s, 1, 4)) /\ s[5] = "-"
    /\ AllDigits(SubSeq(s, 6, 7)) /\ s[8] = "-"
    /\ AllDigits(SubSeq(s, 9, 10))
    /\ SubSeq(s, 1, 4) # <<"0", "0", "0", "0">>
    /\ Num2(s, 6) \in 1..12
    /\ Num2(s, 9) \in 1..DaysIn(Num2(s, 6))

\* HH[:MM[:SS[.fff[fff]]]] as datetime.fromisoformat accepts it.
ClockOK(s) ==
    /\ Len(s) \in {2, 5, 8, 12, 15}
    /\ AllDigits(SubSeq(s, 1, 2)) /\ Num2(s, 1) < 24
    /\ Len(s) >= 5 => s[3] = ":" /\ AllDigits(SubSeq(s, 4, 5)) /\ Num2(s, 4) < 60
    /\ Len(s) >= 8 => s[6] = ":" /\ AllDigits(SubSeq(s, 7, 8)) /\ Num2(s, 7) < 60
    /\ Len(s) >= 12 => s[9] = "." /\ AllDigits(SubSeq(s, 10, Len(s)))

\* Position of the UTC offset sign in a time string, 0 when there is none.
TzPos(s) ==
    IF \E i \in 1..Len(s) : s[i] \in {"+", "-"}
    THEN CHOOSE i \in 1..Len(s) : s[i] \in {"+", "-"} /\ \A j \in 1..(i - 1) : s[j] \notin {"+", "-"}
    ELSE 0

\* The time part after the separator: a clock, then an optional UTC offset.
TimeOK(s) ==
    IF TzPos(s) = 0 THEN ClockOK(s)
    ELSE /\ ClockOK(SubSeq(s, 1, TzPos(s) - 1))
         /\ ClockOK(SubSeq(s, TzPos(s) + 1, Len(s)))
         /\ Len(s) - TzPos(s) >= 5

\* datetime.fromisoformat(s) succeeds.
IsoOK(s) == DateOK(s) /\ (Len(s) = 10 \/ (Len(s) >= 13 /\ TimeOK(SubSeq(s, 12, Len(s)))))

\* datetime.fromisoformat(s).strftime('%Y-%m-%d %H:%M') for a parseable s.
Strftime(s) ==
    SubSeq(s, 1, 10) \o <<" ">>
        \o (IF Len(s) >= 13 THEN SubSeq(s, 12, 13) ELSE <<"0", "0">>)
        \o <<":">>
        \o (IF Len(s) >= 16 /\ s[14] = ":" THEN SubSeq(s, 15, 16) ELSE <<"0", "0">>)

\* Characters in code-point order, for Python's string comparison.
CodePoints ==
    <<" ", "+", "-", ".", "/", "0", "1", "2", "3", "4", "5", "6", "7", "8", "9", ":",
      "B", "D", "T", "Z", "_", "a", "b", "c", "d", "e", "f", "g", "h", "i", "j", "k",
      "l", "m", "n", "o", "p", "q", "r", "s", "t", "u", "v", "w", "x", "y", "z">>

Ord(c) == CHOOSE i \in 1..Len(CodePoints) : CodePoints[i] = c

\* a < b on Python strings.
RECURSIVE StrLess(_, _)
StrLess(a, b) ==
    IF Len(b) = 0 THEN FALSE
    ELSE IF Len(a) = 0 THEN TRUE
    ELSE IF a[1] = b[1] THEN StrLess(Tail(a), Tail(b))
    ELSE Ord(a[1]) < Ord(b[1])

\* s.replace('Z', '+00:00')
RECURSIVE ReplaceZ(_)
ReplaceZ(s) ==
    IF Len(s) = 0 THEN <<>>
    ELSE (IF s[1] = "Z" THEN <<"+", "0", "0", ":", "0", "0">> ELSE <<s[1]>>) \o ReplaceZ(Tail(s))

\* str(n) for a natural number.
RECURSIVE NumStr(_)
NumStr(n) == IF n < 10 THEN <<Digit(n)>> ELSE NumStr(n \div 10) \o <<Digit(n % 10)>>

\* ------------------------------------------------------ the settings file
\* What SETTINGS_FILE holds.  kind is "missing" (no file), "json" (val is
\* the decoded text), "corrupt" (text that is not well-formed JSON),
\* "undecodable" (bytes that are not text in the locale's encoding),
\* "truncated" (emptied by open(..., 'w'), nothing written yet) or "torn"
\* (a shorter document written over the head of a longer one); len is the
\* size of the file.
NoVal == JNum(0)

FileOf(kind, val, len) == [kind |-> kind, val |-> val, len |-> len]

JsonFile(val) == FileOf("json", val, DumpLen(val, 0))

\* A record of an earlier session, one minute apart, lower index = newer; the
\* records from the 23rd on were written before records had a
\* display_timestamp.
OldRecord(i) ==
    JObj(("wpm" :> JNum(40 + i) @@ "errors" :> JNum(i % 3) @@ "backspaces" :> JNum(i % 2)
          @@ "timestamp" :> JStr(<<"2", "0", "2", "5", "-", "0", "6", "-", "1", "5", "T",
                                   "1", "1", ":">> \o TwoDigits(59 - i) \o <<":", "0", "0">>))
         @@ (IF i < 23
             THEN "display_timestamp" :> JStr(<<"2", "0", "2", "5", "-", "0", "6", "-", "1", "5",
                                                " ", "1", "1", ":">> \o TwoDigits(59 - i))
             ELSE EmptyMap))

MakeHistory(n) == JArr([i \in 1..n |-> OldRecord(i)])

\* Records written before display_timestamp existed, the last one before
\* timestamp existed.
LegacyHistory ==
    JArr(<<JObj("wpm" :> JNum(30)
                @@ "timestamp" :> JStr(<<"2", "0", "2", "5", "-", "0", "6", "-", "1", "4", "T",
                                         "1", "0", ":", "0", "0", ":", "0", "0", "Z">>)),
           JObj("wpm" :> JNum(31) @@ "timestamp" :> JStr(<<"T", "B", "D">>)),
           JObj("wpm" :> JNum(32)
                @@ "timestamp" :> JStr(<<"2", "0", "2", "5", "-", "0", "6", "-", "1", "4", " ",
                                         "0", "9", ":", "3", "0">>)),
           JObj("wpm" :> JNum(33))>>)

ProfilePng == JStr(<<"p", "r", "o", "f", "i", "l", "e", ".", "p", "n", "g">>)

\* The settings files a behaviour may start from.
InitFiles ==
    { FileOf("missing", NoVal, 0),
      FileOf("corrupt", NoVal, 7),
      FileOf("undecodable", NoVal, 3),
      JsonFile(JArr(<<>>)),
      JsonFile(JObj(EmptyMap)),
      JsonFile(JObj("history" :> MakeHistory(1) @@ "profile_image" :> ProfilePng)),
      JsonFile(JObj("history" :> MakeHistory(19))),
      JsonFile(JObj("history" :> MakeHistory(20))),
      JsonFile(JObj("history" :> MakeHistory(25) @@ "profile_image" :> ProfilePng)),
      JsonFile(JObj("history" :> LegacyHistory)) }

\* load_settings(): raised is TRUE when the call raises instead of returning.
load_settings(f) ==
    CASE f.kind = "missing" -> [raised |-> FALSE, val |-> JObj(EmptyMap)]
      [] f.kind = "json" -> [raised |-> FALSE, val |-> f.val]
      [] f.kind \in {"corrupt", "truncated", "torn"} -> [raised |-> FALSE, val |-> JObj(EmptyMap)]
      [] f.kind = "undecodable" -> [raised |-> TRUE, val |-> NoVal]

\* open(SETTINGS_FILE, 'w'): the file exists and is empty.
OpenForWrite(f) == FileOf("truncated", NoVal, 0)

\* json.dump(settings, f) and close, through a handle positioned at 0: the
\* text replaces the head of whatever the file holds by then.
DumpAndClose(f, val) ==
    IF f.len > DumpLen(val, 0) THEN FileOf("torn", NoVal, f.len) ELSE JsonFile(val)

\* The history a reader of the settings file finds in it.
PersistedHistory(f) ==
    IF f.kind = "json" /\ f.val.t = "obj" /\ "history" \in DOMAIN f.val.v
    THEN f.val.v["history"].v
    ELSE <<>>

\* ---------------------------------------------------------- history ledger
\* The JSON bodies a client posts to /save.
Bodies ==
    { "errors" :> JNum(3),
      "wpm" :> JNum(85) @@ "errors" :> JNum(3) @@ "backspaces" :> JNum(1) }

\* The entry POST /save builds from its body at clock tick c.
NewEntry(data, c) ==
    JObj("wpm" :> Get(data, "wpm", JNum(0))
         @@ "errors" :> Get(data, "errors", JNum(0))
         @@ "backspaces" :> Get(data, "backspaces", JNum(0))
         @@ "timestamp" :> JStr(IsoFormat(c))
         @@ "display_timestamp" :> JStr(Strftime(IsoFormat(c))))

\* A slip: history.append(entry).
InsertAtEnd(history, e) == history \o <<e>>

\* history.insert(0, entry)
Insert(history, e) ==
    SubSeq(history, 1, InsertIndex) \o <<e>> \o SubSeq(history, InsertIndex + 1, Len(history))

\* A slip: history[-20:].
TrimTail(history) ==
    SubSeq(history, IF Len(history) > HistoryCap THEN Len(history) - HistoryCap + 1 ELSE 1,
           Len(history))

\* A slip: no trim.
TrimNone(history) == history

\* history[:20]
Trim(history) == Slice(history, 0, HistoryCap)

\* The display_timestamp GET / gives a record that has a timestamp and no
\* display_timestamp.
Backfill(ts) ==
    IF ts.t = "str" /\ Contains(ts.v, "T")
    THEN IF IsoOK(ReplaceZ(ts.v)) THEN JStr(Strftime(ReplaceZ(ts.v))) ELSE ts
    ELSE IF ts.t = "str" THEN ts ELSE JStr(NumStr(ts.v))

EnsureDisplay(item) ==
    IF "display_timestamp" \notin DOMAIN item.v /\ "timestamp" \in DOMAIN item.v
    THEN JObj(Put(item.v, "display_timestamp", Backfill(item.v["timestamp"])))
    ELSE item

\* x.get('timestamp', '')
SortKey(item) == Get(item.v, "timestamp", JStr(<<>>))

\* a < b on two sort keys of the same type.
KeyLess(a, b) == IF a.t = "str" THEN StrLess(a.v, b.v) ELSE a.v < b.v

\* The keys can be compared with each other (else list.sort raises TypeError).
Sortable(history) ==
    \A i, j \in 1..Len(history) : SortKey(history[i]).t = SortKey(history[j]).t

\* history.sort(key=..., reverse=True): descending, equal keys keep their order.
RECURSIVE SortDesc(_)
SortDesc(history) ==
    IF Len(history) <= 1 THEN history
    ELSE LET n == Len(history)
             x == history[n]
             done == SortDesc(SubSeq(history, 1, n - 1))
             before == SelectSeq(done, LAMBDA y : ~KeyLess(SortKey(y), SortKey(x)))
             after == SelectSeq(done, LAMBDA y : KeyLess(SortKey(y), SortKey(x)))
         IN before \o <<x>> \o after

\* ------------------------------------------------------------------ state
VARIABLES
    file,       \* the settings file
    file0,      \* the settings file the behaviour started from
    uploads,    \* names of the files in static/uploads
    now,        \* wall clock, in ticks
    req,        \* per request slot: handler, position in it, locals, response
    obs,        \* per request slot: what the request found and ran alongside
    quota,      \* the requests the clients make in this behaviour, at most
    nreq,       \* requests started so far
    log,        \* what has happened so far: the handlers that entered
                \* save_settings (opened) and that answered after it
                \* (completed), the slot whose save_settings returned last
                \* (last), the number of pages GET / rendered (rendered)
    tree,       \* the templates directory tree
    tresp,      \* response of the latest template upload
    tobs,       \* the latest template upload: its inputs, the tree it found
    fsx,        \* the templates tree beyond its files: the subdirectories
                \* nested in each language directory, the paths that cannot
                \* be listed (directories) or read (files)
    scanres,    \* what scan_code_templates returned for the tree as it is
    nup,        \* template uploads made so far
    strip,      \* the latest call of _strip_comments: its arguments, its
                \* result, and how many calls were chained (n)
    stamp       \* the latest call of format_timestamp, likewise

vars ==
    <<file, file0, uploads, now, req, obs, quota, nreq, log, tree, tresp, tobs, fsx, scanres,
      nup, strip, stamp>>

settingsVars == <<file, file0, uploads, now, req, obs, quota, nreq, log>>

templateVars == <<tree, tresp, tobs, fsx, scanres, nup>>

pureVars == <<strip, stamp>>

\* No call has been made.
NoStrip == [n |-> 0, lang |-> <<>>, fname |-> <<>>, code |-> <<>>, out |-> <<>>]

NoStamp == [n |-> 0, lenient |-> FALSE, arg |-> JStr(<<>>), out |-> JStr(<<>>)]

LOOPBACK == <<"1", "2", "7", ".", "0", ".", "0", ".", "1">>

\* request.remote_addr of the requests.
Addrs == {LOOPBACK, <<"1", "0", ".", "0", ".", "0", ".", "5">>}

NoResp == [code |-> 0, status |-> "none", timestamp |-> <<>>, history |-> <<>>]

Resp(code, status) == [code |-> code, status |-> status, timestamp |-> <<>>, history |-> <<>>]

IdleReq == [kind |-> "none", pc |-> "idle", entry |-> NoVal, settings |-> NoVal, resp |-> NoResp]

NoObs == [n |-> 0, solo |-> FALSE, pre |-> FileOf("missing", NoVal, 0), saw |-> "none",
          addr |-> <<>>, fname |-> <<>>, data |-> EmptyMap]

Active(r) == req[r].pc \in {"stamped", "loaded", "opened"}

Free(r) == req[r].pc \in {"idle", "done"}

\* A request enters slot r: it runs alone unless another request is under
\* way, and every request under way stops running alone.
Enter(r, addr, fname, data) ==
    [q \in Reqs |->
        IF q = r
        THEN [n |-> nreq + 1, solo |-> \A o \in Reqs \ {r} : ~Active(o), pre |-> file,
              saw |-> "none", addr |-> addr, fname |-> fname, data |-> data]
        ELSE IF Active(q) THEN [obs[q] EXCEPT !.solo = FALSE] ELSE obs[q]]

\* A new request takes the lowest free slot.
CanStart(r) == Free(r) /\ nreq < quota /\ \A q \in Reqs : q < r => ~Free(q)

\* ------------------------------------------------------------- GET /
\* The history index() hands to the page, from the loaded settings.
IndexHistory(settings) ==
    SortDesc([i \in 1..Len(Get(settings.v, "history", JArr(<<>>)).v) |->
                 EnsureDisplay(Get(settings.v, "history", JArr(<<>>)).v[i])])

\* index() returns a page: load_settings returned a mapping and the sort
\* did not raise.
IndexOK(f) ==
    /\ ~load_settings(f).raised
    /\ load_settings(f).val.t = "obj"
    /\ Sortable(Get(load_settings(f).val.v, "history", JArr(<<>>)).v)

\* A slip: index() saves the settings it has backfilled and sorted.
index_saving(r) ==
    /\ CanStart(r)
    /\ req' = [req EXCEPT ![r] =
                 [kind |-> "index", pc |-> "done", entry |-> NoVal,
                  settings |-> load_settings(file).val,
                  resp |-> IF IndexOK(file)
                           THEN [code |-> 200, status |-> "page", timestamp |-> <<>>,
                                 history |-> IndexHistory(load_settings(file).val)]
                           ELSE Resp(500, "error")]]
    /\ file' = IF IndexOK(file)
               THEN JsonFile(JObj(Put(load_settings(file).val.v, "history",
                                      JArr(IndexHistory(load_settings(file).val)))))
               ELSE file
    /\ obs' = [Enter(r, <<>>, <<>>, EmptyMap) EXCEPT ![r].saw = file.kind]
    /\ nreq' = nreq + 1
    /\ log' = IF IndexOK(file) THEN [log EXCEPT !.rendered = @ + 1] ELSE log
    /\ UNCHANGED <<file0, uploads, now, templateVars, pureVars, quota>>

index(r) ==
    /\ CanStart(r)
    /\ req' = [req EXCEPT ![r] =
                 [kind |-> "index", pc |-> "done", entry |-> NoVal,
                  settings |-> load_settings(file).val,
                  resp |-> IF IndexOK(file)
                           THEN [code |-> 200, status |-> "page", timestamp |-> <<>>,
                                 history |-> IndexHistory(load_settings(file).val)]
                           ELSE Resp(500, "error")]]
    /\ obs' = [Enter(r, <<>>, <<>>, EmptyMap) EXCEPT ![r].saw = file.kind]
    /\ nreq' = nreq + 1
    /\ log' = IF IndexOK(file) THEN [log EXCEPT !.rendered = @ + 1] ELSE log
    /\ UNCHANGED <<file, file0, uploads, now, templateVars, pureVars, quota>>

\* ------------------------------------------------------------- POST /save
\* save(), up to the entry: the clock is read, dt ticks after the last
\* reading.
save_stamp(r, data, dt) ==
    /\ CanStart(r)
    /\ now' = now + dt
    /\ req' = [req EXCEPT ![r] =
                 [kind |-> "save", pc |-> "stamped", entry |-> NewEntry(data, now + dt),
                  settings |-> NoVal, resp |-> NoResp]]
    /\ obs' = Enter(r, <<>>, <<>>, data)
    /\ nreq' = nreq + 1
    /\ UNCHANGED <<file, file0, uploads, log, templateVars, pureVars, quota>>

\* save(): load_settings, insert, trim.
save_load(r) ==
    /\ req[r].kind = "save" /\ req[r].pc = "stamped"
    /\ req' = [req EXCEPT ![r] =
                 IF load_settings(file).raised \/ load_settings(file).val.t # "obj"
                 THEN [@ EXCEPT !.pc = "done", !.resp = Resp(500, "error")]
                 ELSE [@ EXCEPT !.pc = "loaded",
                                !.settings =
                                    JObj(Put(load_settings(file).val.v, "history",
                                             JArr(Trim(Insert(
                                                 Get(load_settings(file).val.v, "history",
                                                     JArr(<<>>)).v,
                                                 req[r].entry)))))]]
    /\ obs' = [obs EXCEPT ![r].saw = file.kind]
    /\ UNCHANGED <<file, file0, uploads, now, nreq, log, templateVars, pureVars, quota>>

\* ------------------------------------------------------------- POST /clear
\* clear_history(): load_settings, settings['history'] = [].
clear_load(r) ==
    /\ CanStart(r)
    /\ req' = [req EXCEPT ![r] =
                 IF load_settings(file).raised \/ load_settings(file).val.t # "obj"
                 THEN [kind |-> "clear", pc |-> "done", entry |-> NoVal, settings |-> NoVal,
                       resp |-> Resp(500, "error")]
                 ELSE [kind |-> "clear", pc |-> "loaded", entry |-> NoVal,
                       settings |-> JObj(Put(load_settings(file).val.v, "history", JArr(<<>>))),
                       resp |-> NoResp]]
    /\ obs' = [Enter(r, <<>>, <<>>, EmptyMap) EXCEPT ![r].saw = file.kind]
    /\ nreq' = nreq + 1
    /\ UNCHANGED <<file, file0, uploads, now, log, templateVars, pureVars, quota>>

\* ------------------------------------------------------------ save_settings
\* save_settings(): open(SETTINGS_FILE, 'w').
save_settings_open(r) ==
    /\ req[r].kind \in {"save", "clear"} /\ req[r].pc = "loaded"
    /\ file' = OpenForWrite(file)
    /\ req' = [req EXCEPT ![r].pc = "opened"]
    /\ log' = [log EXCEPT !.opened = @ \cup {req[r].kind}]
    /\ UNCHANGED <<file0, uploads, now, obs, nreq, templateVars, pureVars, quota>>

\* save_settings(): json.dump and close; then the handler answers.
save_settings_dump(r) ==
    /\ req[r].kind \in {"save", "clear"} /\ req[r].pc = "opened"
    /\ file' = DumpAndClose(file, req[r].settings)
    /\ req' = [req EXCEPT ![r].pc = "done",
                          ![r].resp =
                              IF req[r].kind = "save"
                              THEN [code |-> 200, status |-> "saved",
                                    timestamp |-> req[r].entry.v["display_timestamp"].v,
                                    history |-> <<>>]
                              ELSE Resp(200, "cleared")]
    /\ log' = [log EXCEPT !.completed = @ \cup {req[r].kind}, !.last = r]
    /\ UNCHANGED <<file0, uploads, now, obs, nreq, templateVars, pureVars, quota>>

\* ------------------------------------------------------- reset_settings.py
\* The document the script dumps.
ResetDocument == JObj("history" :> JArr(<<>>))

\* open('train_settings.json', 'w') and json.dump({'history': []}, f).
ResetFile(f) == DumpAndClose(OpenForWrite(f), ResetDocument)

\* A run of the script, a process of its own beside the server.
reset_settings ==
    /\ nreq < quota
    /\ nreq' = nreq + 1
    /\ file' = ResetFile(file)
    /\ log' = [log EXCEPT !.opened = @ \cup {"reset"}, !.completed = @ \cup {"reset"},
                          !.last = 0]
    /\ obs' = [q \in Reqs |-> IF Active(q) THEN [obs[q] EXCEPT !.solo = FALSE] ELSE obs[q]]
    /\ UNCHANGED <<file0, uploads, now, req, templateVars, pureVars, quota>>

\* ------------------------------------------------------ POST /upload_image
\* The file names a client gives its profile image.
ImageNames ==
    { <<"a", ".", "p", "n", "g">> }

ALLOWED_EXTENSIONS ==
    { <<"p", "n", "g">>, <<"j", "p", "g">>, <<"j", "p", "e", "g">>, <<"g", "i", "f">> }

\* Index of the last '.' of a name that has one.
LastDot(s) == CHOOSE i \in 1..Len(s) : s[i] = "." /\ \A j \in (i + 1)..Len(s) : s[j] # "."

\* filename.rsplit('.', 1)[1]
Extension(s) == SubSeq(s, LastDot(s) + 1, Len(s))

allowed_file(filename) == Contains(filename, ".") /\ Extension(filename) \in ALLOWED_EXTENSIONS

\* upload_image(): a requester that is not local is sent to the about page;
\* for a local one the function body ends there, it returns None and the
\* framework answers 500.
upload_image(r, addr, fname) ==
    /\ CanStart(r)
    /\ req' = [req EXCEPT ![r] =
                 [kind |-> "upload_image", pc |-> "done", entry |-> NoVal, settings |-> NoVal,
                  resp |-> IF addr # LOOPBACK THEN Resp(302, "redirect") ELSE Resp(500, "error")]]
    /\ obs' = Enter(r, addr, fname, EmptyMap)
    /\ nreq' = nreq + 1
    /\ UNCHANGED <<file, file0, uploads, now, log, templateVars, pureVars, quota>>

\* -------------------------------------------------------- template upload
RECURSIVE LStrip(_, _)
LStrip(s, chars) ==
    IF Len(s) > 0 /\ s[1] \in chars THEN LStrip(Tail(s), chars) ELSE s

RECURSIVE RStrip(_, _)
RStrip(s, chars) ==
    IF Len(s) > 0 /\ s[Len(s)] \in chars THEN RStrip(SubSeq(s, 1, Len(s) - 1), chars) ELSE s

\* s.strip(chars)
StripChars(s, chars) == RStrip(LStrip(s, chars), chars)

\* s.strip()
Strip(s) == StripChars(s, {" "})

\* "_".join(s.split()) for an s without leading or trailing blanks.
RECURSIVE JoinWords(_)
JoinWords(s) ==
    IF Len(s) = 0 THEN <<>>
    ELSE IF s[1] = " " THEN <<"_">> \o JoinWords(LStrip(s, {" "}))
    ELSE <<s[1]>> \o JoinWords(Tail(s))

\* The characters secure_filename keeps: A-Z a-z 0-9 _ . -
SafeChars == {CodePoints[i] : i \in 1..Len(CodePoints)} \ {" ", "+", "/", ":"}

\* werkzeug.utils.secure_filename: path separators become blanks, the words
\* are joined with "_", every character outside SafeChars is dropped, and
\* leading and trailing "." and "_" are stripped.
secure_filename(s) ==
    StripChars(
        SelectSeq(JoinWords(Strip([i \in 1..Len(s) |-> IF s[i] = "/" THEN " " ELSE s[i]])),
                  LAMBDA c : c \in SafeChars),
        {".", "_"})

NoFiles == [n \in {} |-> <<>>]

NoDirs == [n \in {} |-> NoFiles]

HtmlText == <<"<", "p", ">">>

MainPy == <<"m", "a", "i", "n", ".", "p", "y">>

IndexHtml == <<"i", "n", "d", "e", "x", ".", "h", "t", "m", "l">>

\* The templates directory trees a behaviour may start from: the one of the
\* repository (pages at the root, one language directory) and none at all.
InitTrees ==
    { [exists |-> TRUE,
       files |-> (IndexHtml :> HtmlText),
       dirs |-> (<<"p", "y", "t", "h", "o", "n">> :> (MainPy :> <<"d", "e", "f">>))],
      [exists |-> FALSE, files |-> NoFiles, dirs |-> NoDirs] }

\* The language form fields a client sends; <<>> is also a missing field.
LanguageInputs ==
    { <<>>, <<" ", " ">>, <<"c">>, <<" ", "c", " ">>, <<".", ".">>, <<"a", "/", "b">>,
      IndexHtml }

NoUpfile == [present |-> FALSE, filename |-> <<>>, content |-> <<>>]

\* The file parts a client sends.
FileInputs ==
    {NoUpfile}
    \cup [present : {TRUE},
          filename : { <<>>, <<"m", ".", "c">>, <<".", ".">>, <<".", ".", "/", "x">>,
                       <<"p", "y", "t", "h", "o", "n">> },
          content : { <<"a">>, <<"/", "/", "b">> }]

\* A slip: the language is tested before it is stripped.
MissingFieldUnstripped(language, upfile) ==
    \/ Len(language) = 0
    \/ ~upfile.present
    \/ Len(upfile.filename) = 0

\* The check of api_upload_template on its form fields fails.
MissingField(language, upfile) ==
    \/ Len(Strip(language)) = 0
    \/ ~upfile.present
    \/ Len(upfile.filename) = 0

\* os.makedirs(lang_dir, exist_ok=True) raises: the path is a regular file.
MakedirsRaises(t, safe_lang) == t.exists /\ safe_lang \in DOMAIN t.files

\* os.makedirs(lang_dir, exist_ok=True); an empty safe_lang names the root.
Makedirs(t, safe_lang) ==
    IF safe_lang = <<>> THEN [t EXCEPT !.exists = TRUE]
    ELSE IF safe_lang \in DOMAIN t.dirs THEN t
    ELSE [t EXCEPT !.exists = TRUE, !.dirs = (safe_lang :> NoFiles) @@ t.dirs]

\* upfile.save(dest_path) raises: the path is a directory.
SaveRaises(t, safe_lang, safe_name) ==
    \/ safe_name = <<>>
    \/ safe_lang = <<>> /\ safe_name \in DOMAIN t.dirs
    \/ safe_lang \in DOMAIN fsx.nested /\ safe_name \in fsx.nested[safe_lang]

\* upfile.save(dest_path) into an existing lang_dir.
SaveFile(t, safe_lang, safe_name, content) ==
    IF safe_lang = <<>>
    THEN [t EXCEPT !.files = (safe_name :> content) @@ t.files]
    ELSE [t EXCEPT !.dirs[safe_lang] = (safe_name :> content) @@ t.dirs[safe_lang]]

TResp(code, status, lang, name) == [code |-> code, status |-> status, lang |-> lang, name |-> name]

\* No scan has been made of the tree as it is.
NoScan == [done |-> FALSE, raised |-> FALSE, languages |-> <<>>]

\* Requester is not the local admin.
NotAuthorized(addr) == addr # LOOPBACK

api_upload_template(addr, language, upfile) ==
    /\ nup < MaxUploads
    /\ nup' = nup + 1
    /\ tobs' = [addr |-> addr, language |-> language, upfile |-> upfile, before |-> tree]
    /\ fsx' = fsx
    /\ scanres' = NoScan
    /\ LET safe_lang == secure_filename(Strip(language))
           safe_name == secure_filename(upfile.filename)
       IN IF NotAuthorized(addr)
          THEN /\ tresp' = TResp(403, "not authorized", <<>>, <<>>)
               /\ tree' = tree
          ELSE IF MissingField(language, upfile)
          THEN /\ tresp' = TResp(400, "missing language or file", <<>>, <<>>)
               /\ tree' = tree
          ELSE IF MakedirsRaises(tree, safe_lang)
          THEN /\ tresp' = TResp(500, "error", <<>>, <<>>)
               /\ tree' = tree
          ELSE IF SaveRaises(Makedirs(tree, safe_lang), safe_lang, safe_name)
          THEN /\ tresp' = TResp(500, "failed to save file", <<>>, <<>>)
               /\ tree' = Makedirs(tree, safe_lang)
          ELSE /\ tresp' = TResp(200, "ok", safe_lang, safe_name)
               /\ tree' = SaveFile(Makedirs(tree, safe_lang), safe_lang, safe_name,
                                   upfile.content)
    /\ UNCHANGED <<settingsVars, pureVars>>

\* ------------------------------------------------------- snippet repository
\* A byte that is not part of any UTF-8 character.
BadByte == "xFF"

\* f.read() of open(path, 'r', encoding='utf-8', errors='ignore'): bytes that
\* do not decode are dropped, and "\r\n" and "\r" are read as "\n".
RECURSIVE ReadText(_)
ReadText(bytes) ==
    IF Len(bytes) = 0 THEN <<>>
    ELSE IF bytes[1] = BadByte THEN ReadText(Tail(bytes))
    ELSE IF bytes[1] = "\r"
    THEN <<"\n">> \o ReadText(IF Len(bytes) > 1 /\ bytes[2] = "\n"
                              THEN Tail(Tail(bytes)) ELSE Tail(bytes))
    ELSE <<bytes[1]>> \o ReadText(Tail(bytes))

\* Paths below the templates root: <<>> is the root, <<d>> a language
\* directory, <<d, f>> a file in it.
RootPath == <<>>

\* _read_text_file(path) for the file f of directory d.
read_text_file(t, x, d, f) == IF <<d, f>> \in x.denied THEN <<>> ELSE ReadText(t.dirs[d][f])

\* The names of S in ascending code-point order.
RECURSIVE SortNames(_)
SortNames(S) ==
    IF S = {} THEN <<>>
    ELSE LET m == CHOOSE a \in S : \A b \in S \ {a} : StrLess(a, b)
         IN <<m>> \o SortNames(S \ {m})

Reverse(q) == [i \in 1..Len(q) |-> q[Len(q) + 1 - i]]

\* os.listdir of a directory that holds the names S; the order is not
\* specified: ascending or descending here.
ListDir(S, rev) == IF rev THEN Reverse(SortNames(S)) ELSE SortNames(S)

\* The entries of language directory d: its files and its subdirectories.
Entries(t, x, d) == DOMAIN t.dirs[d] \cup (IF d \in DOMAIN x.nested THEN x.nested[d] ELSE {})

\* The snippets of language directory d; the listing of a directory that
\* cannot be listed raises, which leaves the snippets collected so far.
Snippets(t, x, d, rev) ==
    IF <<d>> \in x.denied THEN <<>>
    ELSE LET names == SelectSeq(ListDir(Entries(t, x, d), rev), LAMBDA f : f \in DOMAIN t.dirs[d])
         IN [i \in 1..Len(names) |->
                [title |-> names[i], code |-> read_text_file(t, x, d, names[i])]]

\* A slip: the listing of a language directory is not guarded.
ScanUnguarded(t, x, rev) ==
    IF ~t.exists THEN [done |-> TRUE, raised |-> FALSE, languages |-> <<>>]
    ELSE IF RootPath \in x.denied THEN [done |-> TRUE, raised |-> FALSE, languages |-> <<>>]
    ELSE IF \E d \in DOMAIN t.dirs : <<d>> \in x.denied
    THEN [done |-> TRUE, raised |-> TRUE, languages |-> <<>>]
    ELSE LET langs == ListDir(DOMAIN t.dirs, rev)
         IN [done |-> TRUE, raised |-> FALSE,
             languages |->
                 [i \in 1..Len(langs) |->
                     [name |-> langs[i],
                      levels |-> <<[level |-> "files",
                                    snippets |-> Snippets(t, x, langs[i], rev)]>>]]]

\* A slip: the files at the root are taken for a language of their own.
ScanRootFiles(t, x, rev) ==
    IF ~t.exists \/ RootPath \in x.denied
    THEN [done |-> TRUE, raised |-> FALSE, languages |-> <<>>]
    ELSE LET langs == ListDir(DOMAIN t.dirs, rev)
         IN [done |-> TRUE, raised |-> FALSE,
             languages |->
                 [i \in 1..Len(langs) |->
                     [name |-> langs[i],
                      levels |-> <<[level |-> "files",
                                    snippets |-> Snippets(t, x, langs[i], rev)]>>]]
                 \o (IF DOMAIN t.files = {} THEN <<>>
                     ELSE <<[name |-> <<>>,
                             levels |-> <<[level |-> "files",
                                           snippets |->
                                               [i \in 1..Len(SortNames(DOMAIN t.files)) |->
                                                   [title |-> SortNames(DOMAIN t.files)[i],
                                                    code |-> <<>>]]]>>]>>)]

\* scan_code_templates(): nothing for a root that is no directory or cannot
\* be listed; else one group per subdirectory of the root, in listing order.
scan_code_templates(t, x, rev) ==
    IF ~t.exists THEN [done |-> TRUE, raised |-> FALSE, languages |-> <<>>]
    ELSE IF RootPath \in x.denied THEN [done |-> TRUE, raised |-> FALSE, languages |-> <<>>]
    ELSE LET langs == ListDir(DOMAIN t.dirs, rev)
         IN [done |-> TRUE, raised |-> FALSE,
             languages |->
                 [i \in 1..Len(langs) |->
                     [name |-> langs[i],
                      levels |-> <<[level |-> "files",
                                    snippets |-> Snippets(t, x, langs[i], rev)]>>]]]

\* GET /api/templates
api_templates(rev) ==
    /\ scanres' = scan_code_templates(tree, fsx, rev)
    /\ UNCHANGED <<tree, tresp, tobs, fsx, nup>>
    /\ UNCHANGED <<settingsVars, pureVars>>

Python == <<"p", "y", "t", "h", "o", "n">>

\* Nothing nested, nothing denied.
PlainExtras == [nested |-> [d \in {} |-> {}], denied |-> {}]

\* What a behaviour may start with beyond the files of its tree: for the
\* tree of the repository, a subdirectory in python/, and at most one path
\* that cannot be listed or read.
InitExtras(t) ==
    IF ~t.exists THEN {PlainExtras}
    ELSE [nested : {Python :> {<<"o", "l", "d">>}},
          denied : {{}, {RootPath}, {<<Python>>}, {<<Python, MainPy>>}}]

\* The uploads of the behaviours that scan: from 127.0.0.1, with a language
\* and a file.
ScanLanguages == { <<"c">>, <<".", ".">>, <<"a", "/", "b">> }

ScanFiles ==
    [present : {TRUE},
     filename : { <<"m", ".", "c">>, <<".", ".", "/", "x">> },
     content : { <<"a", "\r", "\n", "b">>, <<"/", "/", "b", BadByte>> }]

\* ------------------------------------------------------- comment stripping
\* Longest text given to _strip_comments, beside the chosen ones.
MaxText == 4

\* At position i of s starts pat.
At(s, i, pat) == i + Len(pat) - 1 <= Len(s) /\ SubSeq(s, i, i + Len(pat) - 1) = pat

\* The first position from i on where pat starts in s, 0 without one.
Find(s, pat, i) ==
    IF \E k \in i..Len(s) : At(s, k, pat)
    THEN CHOOSE k \in i..Len(s) : At(s, k, pat) /\ \A j \in i..(k - 1) : ~At(s, j, pat)
    ELSE 0

\* A slip: ".*" for ".*?", every match ends with the last close.
RECURSIVE SubBlocksGreedy(_, _, _)
SubBlocksGreedy(txt, open, close) ==
    LET i == Find(txt, open, 1)
        ends == IF i = 0 THEN {} ELSE { k \in (i + Len(open))..Len(txt) : At(txt, k, close) }
    IN IF ends = {} THEN txt
       ELSE LET j == CHOOSE k \in ends : \A m \in ends : m <= k
            IN SubSeq(txt, 1, i - 1)
               \o SubBlocksGreedy(SubSeq(txt, j + Len(close), Len(txt)), open, close)

\* re.sub(open + ".*?" + close, "", txt, flags=re.DOTALL), and the same with
\* [\s\S]*? between the two: every match starts at the first open that has a
\* close behind it, ends with the first such close, and the search goes
\* on behind the match.
RECURSIVE SubBlocks(_, _, _)
SubBlocks(txt, open, close) ==
    LET i == Find(txt, open, 1)
        j == IF i = 0 THEN 0 ELSE Find(txt, close, i + Len(open))
    IN IF j = 0 THEN txt
       ELSE SubSeq(txt, 1, i - 1)
            \o SubBlocks(SubSeq(txt, j + Len(close), Len(txt)), open, close)

\* re.sub(mark + ".*?$", "", txt, flags=re.MULTILINE): "." is any character
\* but "\n", "$" is the end of the text or the place before a "\n".
RECURSIVE SubLineTails(_, _)
SubLineTails(txt, mark) ==
    LET i == Find(txt, mark, 1)
        j == IF i = 0 THEN 0 ELSE Find(txt, <<"\n">>, i + Len(mark))
    IN IF i = 0 THEN txt
       ELSE IF j = 0 THEN SubSeq(txt, 1, i - 1)
       ELSE SubSeq(txt, 1, i - 1) \o SubLineTails(SubSeq(txt, j, Len(txt)), mark)

\* The line boundaries of str.splitlines() and the characters str.rstrip()
\* removes, among the characters of the texts here.
LineEnds == {"\n", "\r", "\f"}

Whitespace == {" ", "\t", "\n", "\r", "\f"}

\* txt.splitlines(): "\r\n" is one boundary, and a boundary at the end of the
\* text starts no further line.
RECURSIVE SplitLines(_)
SplitLines(txt) ==
    IF Len(txt) = 0 THEN <<>>
    ELSE IF \E k \in 1..Len(txt) : txt[k] \in LineEnds
    THEN LET k == CHOOSE i \in 1..Len(txt) :
                      txt[i] \in LineEnds /\ \A j \in 1..(i - 1) : txt[j] \notin LineEnds
             n == IF txt[k] = "\r" /\ k < Len(txt) /\ txt[k + 1] = "\n" THEN k + 1 ELSE k
         IN <<SubSeq(txt, 1, k - 1)>> \o SplitLines(SubSeq(txt, n + 1, Len(txt)))
    ELSE <<txt>>

\* "\n".join(lines)
RECURSIVE JoinLines(_)
JoinLines(lines) ==
    IF Len(lines) = 0 THEN <<>>
    ELSE IF Len(lines) = 1 THEN lines[1]
    ELSE lines[1] \o <<"\n">> \o JoinLines(Tail(lines))

\* A slip: the lines that are empty after the trimming are left out.
TrimLinesCollapsing(text) ==
    LET lines == SplitLines(text)
    IN JoinLines(SelectSeq([i \in 1..Len(lines) |-> RStrip(lines[i], Whitespace)],
                           LAMBDA ln : ln # <<>>))

\* "\n".join(ln.rstrip() for ln in text.splitlines())
TrimLines(text) ==
    LET lines == SplitLines(text)
    IN JoinLines([i \in 1..Len(lines) |-> RStrip(lines[i], Whitespace)])

UpperChars == <<"C", "G", "O", "P", "Y">>

LowerChars == <<"c", "g", "o", "p", "y">>

\* s.lower(), for the letters of the names here.
Lower(s) ==
    [i \in 1..Len(s) |->
        IF \E k \in 1..Len(UpperChars) : UpperChars[k] = s[i]
        THEN LowerChars[CHOOSE k \in 1..Len(UpperChars) : UpperChars[k] = s[i]]
        ELSE s[i]]

\* os.path.splitext(fname)[1]: from the last dot of the last path component
\* on, unless only dots precede it there.
SplitExt(fname) ==
    LET slash == IF Contains(fname, "/")
                 THEN CHOOSE i \in 1..Len(fname) :
                          fname[i] = "/" /\ \A j \in (i + 1)..Len(fname) : fname[j] # "/"
                 ELSE 0
        base == SubSeq(fname, slash + 1, Len(fname))
    IN IF Contains(base, ".")
          /\ \E j \in 1..(LastDot(base) - 1) : base[j] # "."
       THEN SubSeq(base, LastDot(base), Len(base))
       ELSE <<>>

CExts ==
    { <<".", "c">>, <<".", "h">>, <<".", "h", "p", "p">>, <<".", "c", "p", "p">>,
      <<".", "c", "c">>, <<".", "j", "a", "v", "a">>, <<".", "j", "s">>, <<".", "t", "s">>,
      <<".", "g", "o">> }

CLangs ==
    { <<"c">>, <<"c", "p", "p">>, <<"j", "a", "v", "a">>,
      <<"j", "a", "v", "a", "s", "c", "r", "i", "p", "t">>,
      <<"t", "y", "p", "e", "s", "c", "r", "i", "p", "t">>, <<"g", "o">>,
      <<"s", "t", "m", "3", "2">> }

Vhdl == <<"v", "h", "d", "l">>

Html == <<"h", "t", "m", "l">>

IsCFamily(lang, fname) == Lower(SplitExt(fname)) \in CExts \/ lang \in CLangs

IsPython(lang, fname) == Lower(SplitExt(fname)) = <<".", "p", "y">> \/ lang = Python

IsVhdl(lang, fname) ==
    Lower(SplitExt(fname)) \in { <<".", "v", "h", "d">>, <<".", "v", "h", "d", "l">> }
    \/ lang = Vhdl

IsHtml(lang, fname) ==
    Lower(SplitExt(fname)) \in { <<".", "h", "t", "m", "l">>, <<".", "h", "t", "m">> }
    \/ lang = Html

\* strip_c_like(txt)
strip_c_like(txt) == SubLineTails(SubBlocks(txt, <<"/", "*">>, <<"*", "/">>), <<"/", "/">>)

Quotes1 == <<"'", "'", "'">>

Quotes2 == <<"\"", "\"", "\"">>

\* _strip_comments(lang, fname, code), for strings.
strip_comments(lang, fname, code) ==
    TrimLines(
        IF IsCFamily(lang, fname) THEN strip_c_like(code)
        ELSE IF IsPython(lang, fname)
        THEN SubLineTails(SubBlocks(SubBlocks(code, Quotes1, Quotes1), Quotes2, Quotes2),
                          <<"#">>)
        ELSE IF IsVhdl(lang, fname) THEN SubLineTails(code, <<"-", "-">>)
        ELSE IF IsHtml(lang, fname)
        THEN SubBlocks(code, <<"<", "!", "-", "-">>, <<"-", "-", ">">>)
        ELSE SubLineTails(strip_c_like(code), <<"#">>))

\* The example of the documentation and its result.
CExample ==
    <<"i", "n", "t", " ", "x", " ", "=", " ", "1", ";", " ", "/", "/", " ", "s", "e", "t",
      " ", "x", "\n", "/", "*", " ", "b", "l", "o", "c", "k", " ", "*", "/", "\n", "i",
      "n", "t", " ", "y", ";">>

CExampleOut ==
    <<"i", "n", "t", " ", "x", " ", "=", " ", "1", ";", "\n", "\n", "i", "n", "t", " ",
      "y", ";">>

\* The example, a text with a blank line at its end, texts whose comments
\* leave the two halves of a comment next to each other (C-family, HTML), a
\* text with comments for Python, VHDL and HTML each, and a text with "\r\n",
\* a tab and a comment that is not closed.
ChosenTexts ==
    { CExample,
      <<"a", "\n", "\n">>,
      <<"/", "/", "*", "*", "/", "*", "*", "/">>,
      <<"<", "!", "-", "<", "!", "-", "-", "-", "-", ">", "-", "-", "-", ">">>,
      <<"a", " ", "#", " ", "c", "\n", "'", "'", "'", "d", "\n", "'", "'", "'", "\n", "b">>,
      <<"a", " ", "-", "-", " ", "c", "\n", "b">>,
      <<"<", "p", ">", "<", "!", "-", "-", " ", "c", "\n", " ", "-", "-", ">",
        "<", "/", "p", ">">>,
      <<"a", " ", "\r", "\n", "/", "*", " ", "x", " ", "*", "/", "\t", "\n", "b", " ",
        "/", "*">> }

StripAlphabet == {"/", "*", "\n", " ", "a"}

\* The texts given to _strip_comments: every text over the alphabet up to
\* the length MaxText, and the chosen ones.
StripTexts == UNION { [1..n -> StripAlphabet] : n \in 0..MaxText } \cup ChosenTexts

\* The language hints and file names given with them: a hint alone, an
\* extension alone (in capitals, of a hidden file), both, neither.
StripCalls ==
    { <<<<"c">>, <<"x">>>>, <<<<>>, <<"a", ".", "G", "O">>>>,
      <<Python, <<"x">>>>, <<Python, <<"m", ".", "c">>>>,
      <<Vhdl, <<"x">>>>, <<Html, <<"x">>>>,
      <<<<>>, <<"x">>>>, <<<<>>, <<".", "c">>>> }

\* The calls made: the C-family ones with every text, the others with the
\* chosen texts and the texts shorter than MaxText.
StripInputs ==
    { x \in StripCalls \X StripTexts :
        IsCFamily(x[1][1], x[1][2]) \/ x[2] \in ChosenTexts \/ Len(x[2]) < MaxText }

\* A first call of _strip_comments.
strip_first(lang, fname, code) ==
    /\ strip.n = 0
    /\ strip' = [n |-> 1, lang |-> lang, fname |-> fname, code |-> code,
                 out |-> strip_comments(lang, fname, code)]
    /\ UNCHANGED <<stamp, settingsVars, templateVars>>

\* A call of _strip_comments on the result of the first one.
strip_again ==
    /\ strip.n = 1
    /\ strip' = [strip EXCEPT !.n = 2, !.code = strip.out,
                              !.out = strip_comments(strip.lang, strip.fname, strip.out)]
    /\ UNCHANGED <<stamp, settingsVars, templateVars>>

\* ------------------------------------------------------- format_timestamp
\* timestamp_str.split('.')[0]
BeforeDot(s) ==
    IF Contains(s, ".")
    THEN SubSeq(s, 1, (CHOOSE i \in 1..Len(s) : s[i] = "." /\ \A j \in 1..(i - 1) : s[j] # ".") - 1)
    ELSE s

\* datetime.fromisoformat(s) succeeds; the interpreters from 3.11 on (lenient)
\* also take a Z for the offset +00:00.
Parses(s, lenient) ==
    \/ IsoOK(s)
    \/ lenient /\ Len(s) > 0 /\ s[Len(s)] = "Z"
       /\ IsoOK(SubSeq(s, 1, Len(s) - 1) \o <<"+", "0", "0", ":", "0", "0">>)

\* timestamp_str.rsplit('.', 1)[0]
BeforeLastDot(s) == IF Contains(s, ".") THEN SubSeq(s, 1, LastDot(s) - 1) ELSE s

\* A slip: the string is cut at its last '.'.
FormatCutAtLastDot(x, lenient) ==
    IF x.t # "str" THEN x
    ELSE IF Contains(x.v, "T")
    THEN IF Parses(BeforeLastDot(x.v), lenient)
         THEN JStr(Strftime(BeforeLastDot(x.v)))
         ELSE JStr(BeforeLastDot(x.v))
    ELSE IF Len(x.v) = 16 /\ x.v[11] = " " THEN x
    ELSE IF Parses(x.v, lenient) THEN JStr(Strftime(x.v)) ELSE x

\* format_timestamp(timestamp_str): a value that is no string makes the test
\* 'T' in timestamp_str raise, and the handler returns the value; in the
\* branch of the strings with a 'T' the handler returns the string as it was
\* cut at its first '.'.
format_timestamp(x, lenient) ==
    IF x.t # "str" THEN x
    ELSE IF Contains(x.v, "T")
    THEN IF Parses(BeforeDot(x.v), lenient)
         THEN JStr(Strftime(BeforeDot(x.v)))
         ELSE JStr(BeforeDot(x.v))
    ELSE IF Len(x.v) = 16 /\ x.v[11] = " " THEN x
    ELSE IF Parses(x.v, lenient) THEN JStr(Strftime(x.v)) ELSE x

Garbage == <<"g", "a", "r", "b", "a", "g", "e">>

\* The strings given to format_timestamp: a date or none, 'T' or a blank, a
\* clock (with a fraction of the second or none) or none, an offset or none.
StampDates == { Date, <<"2", "0", "2", "5", "-", "0", "2", "-", "3", "0">>, Garbage }

StampClocks ==
    { <<>>, <<"1", "2", ":", "0", "2">>, <<"1", "2", ":", "0", "2", ":", "5", "9">>,
      <<"1", "2", ":", "0", "2", ":", "5", "9", ".", "8", "9", "9", "2", "1", "1">>,
      <<"1", "2", ":", "0", "2", ":", "5", "9", ".", "x">>,
      <<"2", "5", ":", "0", "0">>, <<".", "x">> }

StampOffsets == { <<>>, <<"Z">>, <<"+", "0", "2", ":", "0", "0">> }

StampStrings ==
    { d \o sep \o c \o z :
        d \in StampDates, sep \in { <<"T">>, <<" ">> }, c \in StampClocks,
        z \in StampOffsets }
    \cup { <<>>, Date, Garbage, <<"T">>, <<"T", ".", "x">>, <<"T", ".", "x", ".", "y">>,
           <<"a", "b", "c", "d", "e", "f", "g", "h", "i", "j", " ", "k", "l", "m", "n", "o">> }

\* The values given to format_timestamp: the strings, and numbers.
StampInputs == { JStr(s) : s \in StampStrings } \cup { JNum(0), JNum(1750075332) }

\* A first call of format_timestamp.
format_first(x, lenient) ==
    /\ stamp.n = 0
    /\ stamp' = [n |-> 1, lenient |-> lenient, arg |-> x, out |-> format_timestamp(x, lenient)]
    /\ UNCHANGED <<strip, settingsVars, templateVars>>

\* A call of format_timestamp on the result of the first one.
format_again ==
    /\ stamp.n = 1
    /\ stamp' = [stamp EXCEPT !.n = 2, !.arg = stamp.out,
                              !.out = format_timestamp(stamp.out, stamp.lenient)]
    /\ UNCHANGED <<strip, settingsVars, templateVars>>

\* ---------------------------------------------------------- specifications
Init ==
    /\ file \in InitFiles
    /\ file0 = file
    /\ uploads = {}
    /\ now = 0
    /\ req = [r \in Reqs |-> IdleReq]
    /\ obs = [r \in Reqs |-> NoObs]
    /\ quota \in {MaxRequests, MaxOrdered}
    /\ nreq = 0
    /\ log = [opened |-> {}, completed |-> {}, last |-> 0, rendered |-> 0]
    /\ tree \in InitTrees
    /\ tresp = TResp(0, "none", <<>>, <<>>)
    /\ tobs = [addr |-> <<>>, language |-> <<>>, upfile |-> NoUpfile, before |-> tree]
    /\ fsx \in InitExtras(tree)
    /\ scanres = NoScan
    /\ nup = 0
    /\ strip = NoStrip
    /\ stamp = NoStamp

\* The requests on the settings file, served by concurrent threads.
InitSettings ==
    /\ Init
    /\ quota = MaxRequests
    /\ tree = (CHOOSE t \in InitTrees : t.exists) /\ fsx.denied = {}

NextSettings ==
    \/ \E r \in Reqs :
           \/ index(r)
           \/ \E data \in Bodies, dt \in {0, 1} : save_stamp(r, data, dt)
           \/ save_load(r)
           \/ clear_load(r)
           \/ save_settings_open(r)
           \/ save_settings_dump(r)
           \/ \E addr \in Addrs, fname \in ImageNames : upload_image(r, addr, fname)
    \/ reset_settings

Spec == InitSettings /\ [][NextSettings]_vars

\* The template uploads, one at a time.
InitTemplates ==
    Init /\ quota = MaxRequests /\ file = FileOf("missing", NoVal, 0) /\ fsx.denied = {}

NextTemplates ==
    \E addr \in Addrs, language \in LanguageInputs, upfile \in FileInputs :
        api_upload_template(addr, language, upfile)

SpecTemplates == InitTemplates /\ [][NextTemplates]_vars

\* The snippet repository: uploads and scans, one at a time.
InitScan == Init /\ quota = MaxRequests /\ file = FileOf("missing", NoVal, 0)

NextScan ==
    \/ \E language \in ScanLanguages, upfile \in ScanFiles :
           api_upload_template(LOOPBACK, language, upfile)
    \/ \E rev \in BOOLEAN : api_templates(rev)

SpecScan == InitScan /\ [][NextScan]_vars

\* The calls of _strip_comments.
InitStrip ==
    Init /\ quota = MaxRequests /\ file = FileOf("missing", NoVal, 0) /\ ~tree.exists

NextStrip ==
    \/ \E x \in StripInputs : strip_first(x[1][1], x[1][2], x[2])
    \/ strip_again

SpecStrip == InitStrip /\ [][NextStrip]_vars

\* The calls of format_timestamp.
InitStamp ==
    Init /\ quota = MaxRequests /\ file = FileOf("missing", NoVal, 0) /\ ~tree.exists

NextStamp ==
    \/ \E x \in StampInputs, lenient \in BOOLEAN : format_first(x, lenient)
    \/ format_again

SpecStamp == InitStamp /\ [][NextStamp]_vars

\* The requests that build and render a history, from no settings file,
\* served by concurrent threads.
InitOrdered ==
    Init /\ quota = MaxOrdered /\ file = FileOf("missing", NoVal, 0) /\ ~tree.exists

NextOrdered ==
    \E r \in Reqs :
        \/ index(r)
        \/ \E data \in Bodies, dt \in {0, 1} : save_stamp(r, data, dt)
        \/ save_load(r)
        \/ clear_load(r)
        \/ save_settings_open(r)
        \/ save_settings_dump(r)

SpecOrdered == InitOrdered /\ [][NextOrdered]_vars

\* ------------------------------------------------------------- properties
Min(a, b) == IF a < b THEN a ELSE b

\* Request r of the given kind has answered, ran with no other request under
\* way, and no request has started since.
RanAlone(r, kind) ==
    req[r].kind = kind /\ req[r].pc = "done" /\ obs[r].solo /\ obs[r].n = nreq

\* f is a settings file with a history: no file or not JSON (history of
\* length 0), or a JSON object.
HoldsHistory(f) == f.kind \in {"missing", "corrupt"} \/ (f.kind = "json" /\ f.val.t = "obj")

\* C1: a POST /save that ran alone against a settings file whose history had
\* n records answers "saved"; the persisted history then has min(n + 1, 20)
\* records, its first record is the new one, whose metrics are those of the
\* body with 0 for a missing one, and the response's timestamp is that
\* record's display_timestamp.
C1_SaveAppends ==
    \A r \in Reqs :
        RanAlone(r, "save") /\ HoldsHistory(obs[r].pre) =>
            /\ req[r].resp.status = "saved"
            /\ Len(PersistedHistory(file)) = Min(Len(PersistedHistory(obs[r].pre)) + 1, 20)
            /\ PersistedHistory(file)[1] = req[r].entry
            /\ \A k \in {"wpm", "errors", "backspaces"} :
                   PersistedHistory(file)[1].v[k]
                       = (IF k \in DOMAIN obs[r].data THEN obs[r].data[k] ELSE JNum(0))
            /\ req[r].resp.timestamp = PersistedHistory(file)[1].v["display_timestamp"].v

\* A save with missing metrics ran alone against 25 records and left 20.
C1_Witness ==
    \E r \in Reqs :
        /\ RanAlone(r, "save")
        /\ "wpm" \notin DOMAIN obs[r].data
        /\ Len(PersistedHistory(obs[r].pre)) = 25
        /\ Len(PersistedHistory(file)) = 20
        /\ req[r].resp.status = "saved"

\* C2: after a POST /save that ran alone against a history h, the persisted
\* history from its second record on is the first min(len(h), 19) records of
\* h, in the same order and unchanged.
C2_SaveKeepsNewest ==
    \A r \in Reqs :
        RanAlone(r, "save") /\ HoldsHistory(obs[r].pre) =>
            SubSeq(PersistedHistory(file), 2, Len(PersistedHistory(file)))
                = SubSeq(PersistedHistory(obs[r].pre), 1,
                         Min(Len(PersistedHistory(obs[r].pre)), 19))

\* A save ran alone against 20 records: the 19 newest survive, the oldest
\* is gone.
C2_Witness ==
    \E r \in Reqs :
        /\ RanAlone(r, "save")
        /\ Len(PersistedHistory(obs[r].pre)) = 20
        /\ Len(PersistedHistory(file)) = 20
        /\ PersistedHistory(file)[20] = PersistedHistory(obs[r].pre)[19]
        /\ \A i \in 1..20 : PersistedHistory(file)[i] # PersistedHistory(obs[r].pre)[20]

\* C3: if the settings file started with at most 20 records (or missing, or
\* corrupt) the persisted history has at most 20 records in every state; if
\* it started with more, it has at most 20 once a /save or /clear has
\* completed.
C3_HistoryBounded ==
    /\ Len(PersistedHistory(file0)) <= 20 => Len(PersistedHistory(file)) <= 20
    /\ Len(PersistedHistory(file0)) > 20 /\ log.completed # {} =>
           Len(PersistedHistory(file)) <= 20

\* The file started with 25 records, a write has completed, another request
\* is under way and the file holds exactly 20.
C3_Witness ==
    /\ Len(PersistedHistory(file0)) > 20
    /\ log.completed # {}
    /\ \E r \in Reqs : Active(r)
    /\ Len(PersistedHistory(file)) = 20

\* C4: save_settings is atomic for the other requests: no load_settings finds
\* the file emptied or half overwritten by a save_settings under way.
C4_AtomicSave == \A r \in Reqs : obs[r].saw \notin {"truncated", "torn"}

\* C5: once no write is under way, the settings file is the document of the
\* POST /save whose save_settings returned last.
C5_LastWriterWins ==
    \A r \in Reqs :
        /\ log.last = r
        /\ req[r].kind = "save" /\ req[r].pc = "done" /\ req[r].resp.status = "saved"
        /\ \A q \in Reqs : req[q].pc # "opened"
        => file = JsonFile(req[r].settings)

\* The lost append of C5: both slots answered "saved", no write is under way,
\* and the file holds the record of one of the two saves and not the other's.
C5_LostAppend ==
    /\ \A r \in Reqs : req[r].kind = "save" /\ req[r].pc = "done" /\ req[r].resp.status = "saved"
    /\ \E r \in Reqs :
           /\ \E i \in 1..Len(PersistedHistory(file)) : PersistedHistory(file)[i] = req[r].entry
           /\ \A q \in Reqs \ {r} :
                  \A i \in 1..Len(PersistedHistory(file)) :
                      PersistedHistory(file)[i] # req[q].entry

\* The name upload_image is to store the image under.
ProfileName(fname) == <<"p", "r", "o", "f", "i", "l", "e", ".">> \o Extension(fname)

\* C6: a POST /upload_image from 127.0.0.1 with an allowed extension stores
\* profile.<ext> and leaves profile_image = "profile.<ext>" in the settings;
\* one from another address changes nothing.
C6_UploadImageStores ==
    \A r \in Reqs :
        RanAlone(r, "upload_image") =>
            IF obs[r].addr = LOOPBACK /\ allowed_file(obs[r].fname)
            THEN /\ ProfileName(obs[r].fname) \in uploads
                 /\ file.kind = "json" /\ file.val.t = "obj"
                 /\ "profile_image" \in DOMAIN file.val.v
                 /\ file.val.v["profile_image"] = JStr(ProfileName(obs[r].fname))
            ELSE file = obs[r].pre

\* C7: load_settings never raises and returns a mapping, whatever the
\* settings file holds.
C7_LoadNeverRaises == ~load_settings(file).raised /\ load_settings(file).val.t = "obj"

\* C8: a POST /clear that ran alone answers "cleared" and leaves the
\* persisted history empty, whatever the settings file held.
C8_ClearEmpties ==
    \A r \in Reqs :
        RanAlone(r, "clear") =>
            req[r].resp.status = "cleared" /\ PersistedHistory(file) = <<>>

\* C9: as long as no handler has entered save_settings, the settings file is
\* the file the behaviour started from, however many pages GET / rendered.
C9_ReadPathNeverWrites == log.opened = {} => file = file0

\* Two pages were rendered from a file of 25 records, the page got the
\* backfilled display_timestamp, and the file still holds the 25 records
\* without it.
C9_Witness ==
    /\ log.rendered >= 2
    /\ log.opened = {}
    /\ Len(PersistedHistory(file)) = 25
    /\ "display_timestamp" \notin DOMAIN PersistedHistory(file)[25].v
    /\ \E r \in Reqs :
           /\ req[r].kind = "index" /\ Len(req[r].resp.history) = 25
           /\ \A i \in 1..25 : "display_timestamp" \in DOMAIN req[r].resp.history[i].v

Blank(s) == \A i \in 1..Len(s) : s[i] = " "

\* C10: a template upload from another address than 127.0.0.1 is answered
\* 403, also when its fields are invalid; one from 127.0.0.1 with a blank or
\* missing language, no file or an empty file name is answered 400; neither
\* changes the templates tree.
C10_UploadRejected ==
    nup > 0 =>
        /\ tobs.addr # LOOPBACK => tresp.code = 403 /\ tree = tobs.before
        /\ /\ tobs.addr = LOOPBACK
           /\ Blank(tobs.language) \/ ~tobs.upfile.present \/ tobs.upfile.filename = <<>>
           => tresp.code = 400 /\ tree = tobs.before

\* The latest of at least two uploads, from 127.0.0.1 with a blank language
\* and a file, got 400, and the templates root still does not exist.
C10_Witness ==
    /\ nup > 1
    /\ tobs.addr = LOOPBACK /\ tobs.language = <<" ", " ">> /\ tobs.upfile.present
    /\ tresp.code = 400
    /\ ~tree.exists

\* The scan result holds a group named lang with a snippet titled name.
HasSnippet(res, lang, name) ==
    \E i \in 1..Len(res.languages) :
        /\ res.languages[i].name = lang
        /\ \E k \in 1..Len(res.languages[i].levels) :
               \E j \in 1..Len(res.languages[i].levels[k].snippets) :
                   res.languages[i].levels[k].snippets[j].title = name

\* C11: after an upload answered "ok", in a tree where everything can be
\* listed and read, the file is in the language directory named by the
\* sanitized language, an immediate child of the templates root, and a scan
\* made next returns a group of that name with a snippet titled by the
\* sanitized file name.
C11_UploadIsScanned ==
    (tresp.code = 200 /\ fsx.denied = {}) =>
        /\ tresp.lang \in DOMAIN tree.dirs
        /\ tresp.name \in DOMAIN tree.dirs[tresp.lang]
        /\ scanres.done => HasSnippet(scanres, tresp.lang, tresp.name)

\* An upload into language c was answered "ok" and the scan made next
\* returned it: the claim's case when the sanitized language is not empty.
C11_Scanned ==
    /\ tresp.code = 200 /\ tresp.lang = <<"c">> /\ fsx.denied = {}
    /\ scanres.done /\ HasSnippet(scanres, tresp.lang, tresp.name)

\* The titles of a sequence of snippets.
Titles(sn) == { sn[j].title : j \in 1..Len(sn) }

\* The scan result res has the shape of the tree t: one group per
\* subdirectory of the root, each with the one level "files", which holds one
\* snippet per file of the subdirectory, each with the code Code(d, f).
ShapedAs(res, t, Files(_), Code(_, _)) ==
    LET L == res.languages
    IN /\ Len(L) = Cardinality(DOMAIN t.dirs)
       /\ { L[i].name : i \in 1..Len(L) } = DOMAIN t.dirs
       /\ \A i \in 1..Len(L) :
              /\ Len(L[i].levels) = 1
              /\ L[i].levels[1].level = "files"
              /\ LET sn == L[i].levels[1].snippets
                     d == L[i].name
                 IN /\ Len(sn) = Cardinality(Files(d))
                    /\ Titles(sn) = Files(d)
                    /\ \A j \in 1..Len(sn) : sn[j].code = Code(d, sn[j].title)

\* C12 as stated, for trees where everything can be listed and read: the
\* scan returns one group per subdirectory of the root, with the one level
\* "files" and one snippet per file directly in the subdirectory, whose code
\* is the content of the file as stored.
C12_ScanReturnsRawText ==
    (scanres.done /\ tree.exists /\ fsx.denied = {}) =>
        ShapedAs(scanres, tree, LAMBDA d : DOMAIN tree.dirs[d],
                 LAMBDA d, f : tree.dirs[d][f])

\* C12, amended: when the root is a directory that can be listed, the scan
\* returns one group per subdirectory of the root, with the one level
\* "files"; the level holds one snippet per file directly in the
\* subdirectory (none when the subdirectory cannot be listed), titled by the
\* file name, whose code is the content decoded as UTF-8 with the bytes that
\* do not decode dropped and every line end read as "\n" (empty when the
\* file cannot be read), comments included. Files at the root and
\* directories nested in a subdirectory contribute nothing.
C12_ScanReturnsDecodedText ==
    (scanres.done /\ tree.exists /\ RootPath \notin fsx.denied) =>
        ShapedAs(scanres, tree,
                 LAMBDA d : IF <<d>> \in fsx.denied THEN {} ELSE DOMAIN tree.dirs[d],
                 LAMBDA d, f : IF <<d, f>> \in fsx.denied THEN <<>>
                               ELSE ReadText(tree.dirs[d][f]))

\* A scan of a tree with a page at the root, a directory nested in python/
\* and an uploaded file with a comment and a byte that does not decode
\* returned two groups; the snippet of the upload has the comment and lacks
\* the byte.
C12_Witness ==
    /\ scanres.done /\ tree.exists /\ fsx.denied = {}
    /\ DOMAIN tree.files # {}
    /\ Python \in DOMAIN fsx.nested
    /\ Len(scanres.languages) = 2
    /\ \E i \in 1..2 :
           LET sn == scanres.languages[i].levels[1].snippets
           IN /\ scanres.languages[i].name = <<"c">>
              /\ \E j \in 1..Len(sn) :
                     /\ sn[j].code = <<"/", "/", "b">>
                     /\ tree.dirs[<<"c">>][sn[j].title] = <<"/", "/", "b", BadByte>>

\* The snippets of the group named d in the scan result, <<>> without one.
GroupSnippets(res, d) ==
    IF \E i \in 1..Len(res.languages) : res.languages[i].name = d
    THEN LET i == CHOOSE k \in 1..Len(res.languages) : res.languages[k].name = d
         IN res.languages[i].levels[1].snippets
    ELSE <<>>

HasGroup(res, d) == \E i \in 1..Len(res.languages) : res.languages[i].name = d

\* C13: a scan returns and does not raise; without a templates root it
\* returns no group; for a language directory that cannot be listed it still
\* returns the group, with no snippet; for a file that cannot be read it
\* returns a snippet with empty code.
C13_ScanNeverRaises ==
    scanres.done =>
        /\ ~scanres.raised
        /\ ~tree.exists => scanres.languages = <<>>
        /\ (tree.exists /\ RootPath \notin fsx.denied) =>
               \A d \in DOMAIN tree.dirs :
                   /\ HasGroup(scanres, d)
                   /\ <<d>> \in fsx.denied => GroupSnippets(scanres, d) = <<>>
                   /\ \A f \in DOMAIN tree.dirs[d] :
                          (<<d>> \notin fsx.denied /\ <<d, f>> \in fsx.denied) =>
                              \E j \in 1..Len(GroupSnippets(scanres, d)) :
                                  /\ GroupSnippets(scanres, d)[j].title = f
                                  /\ GroupSnippets(scanres, d)[j].code = <<>>

\* After an upload into c, a scan of a tree whose python/ cannot be listed
\* returned both groups, python without a snippet and c with the upload.
C13_Witness ==
    /\ scanres.done /\ ~scanres.raised
    /\ <<Python>> \in fsx.denied
    /\ tree.dirs[Python] # NoFiles
    /\ HasGroup(scanres, Python) /\ GroupSnippets(scanres, Python) = <<>>
    /\ HasGroup(scanres, <<"c">>) /\ Len(GroupSnippets(scanres, <<"c">>)) = 1

\* A scan of a tree whose python/main.py cannot be read returned a snippet
\* main.py with empty code.
C13_Unreadable ==
    /\ scanres.done
    /\ <<Python, MainPy>> \in fsx.denied
    /\ Len(tree.dirs[Python][MainPy]) > 0
    /\ GroupSnippets(scanres, Python) = <<[title |-> MainPy, code |-> <<>>]>>

\* C14: a call of _strip_comments on the result of a first call, with the
\* same language hint and file name, returns what it was given.
C14_StripIdempotent == strip.n = 2 => strip.out = strip.code

\* The text left once every /* ... */ is deleted, read character by
\* character from position i: a "/*" with a "*/" behind it opens a block, the
\* next "*/" closes it.
RECURSIVE DeleteBlocks(_, _, _)
DeleteBlocks(s, i, inBlock) ==
    IF i > Len(s) THEN <<>>
    ELSE IF inBlock
    THEN IF At(s, i, <<"*", "/">>) THEN DeleteBlocks(s, i + 2, FALSE)
         ELSE DeleteBlocks(s, i + 1, TRUE)
    ELSE IF At(s, i, <<"/", "*">>) /\ \E k \in (i + 2)..Len(s) : At(s, k, <<"*", "/">>)
    THEN DeleteBlocks(s, i + 2, TRUE)
    ELSE <<s[i]>> \o DeleteBlocks(s, i + 1, FALSE)

\* The text left once every // through the end of its line is deleted.
RECURSIVE DeleteLineComments(_, _, _)
DeleteLineComments(s, i, inComment) ==
    IF i > Len(s) THEN <<>>
    ELSE IF s[i] = "\n" THEN <<"\n">> \o DeleteLineComments(s, i + 1, FALSE)
    ELSE IF inComment THEN DeleteLineComments(s, i + 1, TRUE)
    ELSE IF At(s, i, <<"/", "/">>) THEN DeleteLineComments(s, i + 2, TRUE)
    ELSE <<s[i]>> \o DeleteLineComments(s, i + 1, FALSE)

\* The lines of a text, each without its trailing whitespace, joined by "\n".
TrimmedLines(s) ==
    LET lines == SplitLines(s)
    IN JoinLines([i \in 1..Len(lines) |-> RStrip(lines[i], Whitespace)])

CanonicalShape(s) ==
    /\ Len(s) = 16
    /\ s[5] = "-" /\ s[8] = "-" /\ s[11] = " " /\ s[14] = ":"
    /\ \A i \in (1..16) \ {5, 8, 11, 14} : IsDigit(s[i])

\* C16: a call of format_timestamp on the result of a first call returns
\* what it was given; and a call on a string of the shape YYYY-MM-DD HH:MM
\* returns that string.
C16_FormatIdempotent ==
    /\ stamp.n = 2 => stamp.out = stamp.arg
    /\ (stamp.n >= 1 /\ stamp.arg.t = "str" /\ CanonicalShape(stamp.arg.v)) =>
           stamp.out = stamp.arg

\* A second call returned the canonical string that the first call had made
\* of an ISO string.
C16_Witness ==
    /\ stamp.n = 2
    /\ stamp.arg = JStr(Date \o <<" ", "1", "2", ":", "0", "2">>)
    /\ stamp.out = stamp.arg

\* C17: a call of format_timestamp returns; when its argument is no string,
\* or a string that does not parse as an ISO timestamp (once cut at its first
\* '.', when it has a 'T'), the result is the argument.
C17_FormatReturnsOriginal ==
    (stamp.n = 1
     /\ \/ stamp.arg.t # "str"
        \/ ~Parses(IF Contains(stamp.arg.v, "T") THEN BeforeDot(stamp.arg.v) ELSE stamp.arg.v,
                   stamp.lenient))
    => stamp.out = stamp.arg

\* C18: every record of a page GET / rendered has a display_timestamp,
\* whatever fields the stored record had.
C18_AllDisplayed ==
    \A r \in Reqs :
        (req[r].kind = "index" /\ req[r].pc = "done" /\ req[r].resp.code = 200) =>
            \A i \in 1..Len(req[r].resp.history) :
                "display_timestamp" \in DOMAIN req[r].resp.history[i].v

\* C19: the history of a page GET / rendered, of a settings file built by
\* POST /save and POST /clear requests only, is the history persisted in the
\* file when the request came, in the same order.
C19_RenderedIsPersisted ==
    \A r \in Reqs :
        (req[r].kind = "index" /\ req[r].pc = "done" /\ req[r].resp.code = 200) =>
            req[r].resp.history = PersistedHistory(obs[r].pre)

\* The same for the requests served one at a time: as long as the second
\* slot was never taken, no two requests overlapped.
C19_SerialOrder ==
    (req[2].kind = "none" /\ req[1].kind = "index" /\ req[1].resp.code = 200) =>
        req[1].resp.history = PersistedHistory(obs[1].pre)

\* Served one at a time, two saves read the clock at the same tick and a page
\* was rendered with both records, the later save first.
C19_SerialTie ==
    /\ req[2].kind = "none" /\ req[1].kind = "index" /\ req[1].resp.code = 200
    /\ Len(req[1].resp.history) = 2
    /\ SortKey(req[1].resp.history[1]) = SortKey(req[1].resp.history[2])
    /\ req[1].resp.history[1].v["wpm"] # req[1].resp.history[2].v["wpm"]

\* The keys of a settings document but history, with their values.
OtherKeys(doc) == [k \in (DOMAIN doc.v) \ {"history"} |-> doc.v[k]]

\* C20: a POST /save or POST /clear that ran alone against a settings file
\* that held a JSON object leaves a JSON object with the same keys and values
\* but for history; a run of reset_settings.py leaves the document
\* {"history": []}, until a request opens the file again.
C20_OnlyHistoryChanges ==
    /\ \A r \in Reqs :
           (/\ RanAlone(r, "save") \/ RanAlone(r, "clear")
            /\ obs[r].pre.kind = "json" /\ obs[r].pre.val.t = "obj") =>
               /\ file.kind = "json" /\ file.val.t = "obj"
               /\ "history" \in DOMAIN file.val.v
               /\ OtherKeys(file.val) = OtherKeys(obs[r].pre.val)
    /\ (log.last = 0 /\ "reset" \in log.completed /\ \A r \in Reqs : req[r].pc # "opened") =>
           file = JsonFile(ResetDocument)

\* A save ran alone against a document with profile_image and one record,
\* and the file has the profile_image and two records.
C20_Witness ==
    \E r \in Reqs :
        /\ RanAlone(r, "save")
        /\ obs[r].pre.kind = "json"
        /\ OtherKeys(obs[r].pre.val) = ("profile_image" :> ProfilePng)
        /\ OtherKeys(file.val) = ("profile_image" :> ProfilePng)
        /\ Len(PersistedHistory(file)) = 2

\* The script ran on a document with profile_image and left none.
C20_ResetDropsKeys ==
    /\ log.last = 0 /\ "reset" \in log.completed
    /\ file0.kind = "json" /\ file0.val.t = "obj" /\ "profile_image" \in DOMAIN file0.val.v
    /\ file = JsonFile(ResetDocument)

====
